---- MODULE Spec2Model ----
(***************************************************************************)
(* Render server of remotion-comps (server.ts, src/unnamed/part_002):      *)
(* the bundle memo, the cache lookup, the render handlers, the retention   *)
(* pruning of the renders directory and the image upload.                  *)
(*                                                                         *)
(* A file name is a sequence of tokens.  A composition id is a sequence of *)
(* letters, so that one id can be a proper prefix of another, and          *)
(* generateFilename appends "_", the timestamp, "." and the extension.     *)
(* Each request handler is cut at its awaits: a request slot carries the   *)
(* position of its handler, and slots interleave.                          *)
(***************************************************************************)
EXTENDS Integers, Sequences, FiniteSets, TLC

\* ---------------------------------------------------------------- bounds
\* request slots that can be in flight together
NumReq == 2
\* requests that follow the first one on a slot
MaxRecycles == 1
\* artifacts of one composition present at start
MaxInitFiles == 10
\* file system calls that fail in one run
MaxFaults == 1
\* uploads in a run
MaxUploads == 3
\* files in one directory of ./public
MaxEntries == 2

\* the most DELETE requests of a run
MaxDeletes == 2

\* ------------------------------------------------------ program constants
\* compositionFiles.slice(10)
KeepCount == 10
\* bundleLocation = null
NoBundle == 0

Req == 1..NumReq
InitClock == MaxInitFiles + 1
SkewedTime == InitClock + 2 * (NumReq + MaxRecycles + 1)
NoFile == <<>>

StartsWith(s, p) == Len(p) <= Len(s) /\ SubSeq(s, 1, Len(p)) = p
EndsWith(s, p) == Len(p) <= Len(s) /\ SubSeq(s, Len(s) - Len(p) + 1, Len(s)) = p

DotExtension(isStill) == IF isStill THEN <<".", "png">> ELSE <<".", "mp4">>

\* generateFilename with the clock reading made explicit
generateFilename(compositionId, isStill, clock) ==
    compositionId \o <<"_", ToString(clock)>> \o DotExtension(isStill)

VARIABLES
    bundleLocation,  \* the memoized bundle location, NoBundle when null
    builds,          \* calls of bundle() so far; the n-th build yields location n
    rendersExists,   \* ./renders exists
    renders,         \* the files of ./renders: records [name, mtime]
    now,             \* the last clock reading (milliseconds)
    recycled,        \* requests that followed another on their slot
    faults,          \* file system calls that failed so far
    lastRender,      \* the artifact the last response named as freshly rendered
    req,             \* per slot: the request and the position of its handler
    publicExists,    \* ./public exists
    publicFiles,     \* the files of ./public: records [name, bytes]
    uploads,         \* the uploads answered so far: [payload, status, filename, ...]
    projectFiles,    \* the names of the files of the working directory itself
    deletion,        \* the DELETE requests answered so far and the last answer
    assets,          \* the entries of ./public that the listings read
    listing          \* the last answer of a listing endpoint

vars == <<bundleLocation, builds, rendersExists, renders, now, recycled, faults,
          lastRender, req, publicExists, publicFiles, uploads, projectFiles,
          deletion, assets, listing>>

renderVars == <<bundleLocation, builds, rendersExists, renders, now, recycled, faults,
                lastRender, req>>
uploadVars == <<publicExists, publicFiles, uploads>>
listVars == <<assets, listing>>
deleteVars == <<projectFiles, deletion>>

\* no listing answered yet; fault names the file system call that failed
NoListing == [route |-> "none", status |-> 0, fault |-> "none", failing |-> "none",
              files |-> <<>>,
              videos |-> <<>>, backdrops |-> <<>>, avatars |-> <<>>, other |-> {},
              publicFileTree |-> <<>>]

NoResp == [status |-> 0, cached |-> FALSE, filename |-> NoFile, error |-> "none"]

\* const { inputProps = {} } = validatedData
DefaultProps == "{}"

\* the inputProps a body can carry
InputProps == {DefaultProps, "{title: 1}", "{title: 2}"}

NoRender == [filename |-> NoFile, compositionId |-> <<>>, isStill |-> FALSE,
             inputProps |-> DefaultProps]

\* a slot without a request.  lookup is the outcome of the cache lookup,
\* matchOnDisk whether ./renders held a matching file at that moment,
\* pruneFaulted whether a call of cleanupOldFiles failed; the counters count
\* what the handler has done so far
IdleReq == [pc |-> "idle", route |-> "none", compositionId |-> <<>>, isStill |-> FALSE,
            inputProps |-> DefaultProps,
            cacheField |-> "omitted", compositionCache |-> FALSE,
            lookup |-> "none", matchOnDisk |-> FALSE,
            build |-> NoBundle, bundlePath |-> NoBundle,
            timestamp |-> 0, filename |-> NoFile, toDelete |-> {},
            pruneFaulted |-> FALSE, resp |-> NoResp,
            engineCalls |-> 0, buildCalls |-> 0, selectCalls |-> 0,
            cleanups |-> 0, fsWrites |-> 0, prevRender |-> NoRender]

Names(files) == {f.name : f \in files}

\* the name filter of getCachedFile
MatchingAnyKind(files, compositionId, isStill) ==
    {f \in files : StartsWith(f.name, compositionId)}

\* the name filter of getCachedFile and cleanupOldFiles:
\* file.startsWith(compositionId) && file.endsWith(extension)
Matching(files, compositionId, isStill) ==
    {f \in files : StartsWith(f.name, compositionId) /\ EndsWith(f.name, DotExtension(isStill))}

\* z.boolean().optional().default(true)
parseCompositionCacheDefaultTrue(field) == field # "false"

\* compositionCache: z.boolean().optional().default(false)
parseCompositionCache(field) == field = "true"

\* getCachedFile without its catch
getCachedFileNoCatch(compositionId, isStill, readdirOk) ==
    [threw |-> ~(readdirOk /\ rendersExists),
     found |-> IF readdirOk /\ rendersExists
               THEN Names(Matching(renders, compositionId, isStill))
               ELSE {}]

\* getCachedFile returning null
getCachedFileNever(compositionId, isStill, readdirOk) ==
    [threw |-> FALSE, found |-> {}]

\* getCachedFile: found holds the names files.find can return (the order of
\* readdir is the file system's); it is empty when nothing matches and when
\* readdir throws, which the catch turns into null
getCachedFile(compositionId, isStill, readdirOk) ==
    [threw |-> FALSE,
     found |-> IF readdirOk /\ rendersExists
               THEN Names(Matching(renders, compositionId, isStill))
               ELSE {}]

SuccessResp(name, isCached) ==
    [status |-> 200, cached |-> isCached, filename |-> name, error |-> "none"]

\* the handler's catch: res.status(500).json({success: false, error: message})
ErrorResp(message) ==
    [status |-> 500, cached |-> FALSE, filename |-> NoFile, error |-> message]

\* the handler ends with its response; its locals are gone
Respond(r, rec, resp) ==
    /\ req' = [req EXCEPT ![r] = [rec EXCEPT !.pc = "done", !.resp = resp,
                                            !.timestamp = 0, !.filename = NoFile,
                                            !.toDelete = {}, !.build = NoBundle]]
    /\ lastRender' = IF rec.route = "render" /\ resp.status = 200 /\ ~resp.cached
                     THEN [filename |-> resp.filename,
                           compositionId |-> rec.compositionId,
                           isStill |-> rec.isStill,
                           inputProps |-> rec.inputProps]
                     ELSE NoRender

\* a path is a sequence of names from the root; process.cwd()
Cwd == <<<<"app">>>>

\* path.resolve('./renders'), path.resolve('./public')
RendersDir == Cwd \o <<<<"renders">>>>
PublicDir == Cwd \o <<<<"public">>>>

\* the files that lie next to ./renders in the working directory
ProjectFiles == {<<"package", ".", "json">>}

\* no DELETE answered yet
NoDeletion == [count |-> 0, status |-> 0, filename |-> <<>>, filePath |-> <<>>, epoch |-> 0]

\* the server has just started
Started ==
    /\ bundleLocation = NoBundle
    /\ builds = 0
    /\ now = InitClock
    /\ recycled = 0
    /\ lastRender = NoRender
    /\ req = [r \in Req |-> IdleReq]
    /\ uploads = <<>>
    /\ listing = NoListing
    /\ projectFiles = ProjectFiles
    /\ deletion = NoDeletion

\* what earlier runs left in ./renders: n videos of composition A, stamped in
\* write order or (skew) by a clock that was ahead, and with extras a still
\* of A and a video of composition AB
InitRenders(n, skew, extras) ==
    {[name |-> generateFilename(<<"A">>, FALSE, i),
      mtime |-> IF skew THEN SkewedTime + i ELSE i] : i \in 1..n}
    \cup (IF extras
          THEN {[name |-> generateFilename(<<"A">>, TRUE, 1), mtime |-> 1],
                [name |-> generateFilename(<<"A", "B">>, FALSE, 1), mtime |-> 1]}
          ELSE {})

Init ==
    /\ Started
    /\ faults = 0
    /\ publicExists = TRUE
    /\ publicFiles = {}
    /\ assets = {}
    /\ rendersExists \in BOOLEAN
    /\ \E n \in {0, MaxInitFiles}, extras \in BOOLEAN :
         renders = IF rendersExists THEN InitRenders(n, FALSE, extras) ELSE {}

\* a full ./renders, in runs where no file system call fails
InitConc ==
    /\ Started
    /\ faults = MaxFaults
    /\ publicExists = TRUE
    /\ publicFiles = {}
    /\ assets = {}
    /\ rendersExists = TRUE
    /\ \E skew \in BOOLEAN : renders = InitRenders(MaxInitFiles, skew, FALSE)

\* a file system call either succeeds or is one of the run's failures
FsCall(ok) == faults' = IF ok THEN faults ELSE faults + 1
FsOutcomes == IF faults < MaxFaults THEN BOOLEAN ELSE {TRUE}

Quiet(r) == \A q \in Req \ {r} : req[q].pc \in {"idle", "done"}

\* a lookup that accepts a cached file only for the inputProps last rendered
lookupCachedFileForProps(compositionCache, compositionId, isStill, inputProps, readdirOk) ==
    IF compositionCache /\ inputProps = lastRender.inputProps
    THEN getCachedFile(compositionId, isStill, readdirOk)
    ELSE [threw |-> FALSE, found |-> {}]

\* if (compositionCache) { cachedFile = await getCachedFile(compositionId, isStill) }
lookupCachedFile(compositionCache, compositionId, isStill, inputProps, readdirOk) ==
    IF compositionCache
    THEN getCachedFile(compositionId, isStill, readdirOk)
    ELSE [threw |-> FALSE, found |-> {}]

\* app.post('/render/video') and app.post('/render/still') with a body the
\* schema refuses: parse throws and the handler's catch answers
PostRenderInvalid(r, isStill) ==
    /\ req[r].pc = "idle"
    /\ Respond(r, [IdleReq EXCEPT !.route = "renderInvalid", !.isStill = isStill],
               ErrorResp("validation"))
    /\ UNCHANGED <<bundleLocation, builds, rendersExists, renders, now, recycled, faults>>
    /\ UNCHANGED <<uploadVars, listVars, deleteVars>>

\* app.post('/render/video') and app.post('/render/still') up to the call of
\* initializeBundle: the schema's parse, and with compositionCache the lookup
\* of a cached file, answered at once when there is one
PostRender(r, compositionId, isStill, cacheField, inputProps) ==
    /\ req[r].pc = "idle"
    /\ \E readdirOk \in (IF rendersExists THEN FsOutcomes ELSE {TRUE}) :
         LET compositionCache == parseCompositionCache(cacheField)
             cachedFile == lookupCachedFile(compositionCache, compositionId, isStill,
                                            inputProps, readdirOk)
             fresh == [IdleReq EXCEPT
                         !.route = "render",
                         !.compositionId = compositionId,
                         !.isStill = isStill,
                         !.inputProps = inputProps,
                         !.cacheField = cacheField,
                         !.compositionCache = compositionCache,
                         !.lookup = IF ~compositionCache THEN "none"
                                    ELSE IF ~(readdirOk /\ rendersExists) THEN "error"
                                    ELSE IF cachedFile.found # {} THEN "hit"
                                    ELSE "miss",
                         !.matchOnDisk = Matching(renders, compositionId, isStill) # {},
                         !.prevRender = IF Quiet(r) THEN lastRender ELSE NoRender]
         IN /\ compositionCache \/ readdirOk
            /\ FsCall(readdirOk)
            /\ IF cachedFile.threw
               THEN Respond(r, fresh, ErrorResp("lookup"))
               ELSE IF cachedFile.found # {}
               THEN \E name \in cachedFile.found : Respond(r, fresh, SuccessResp(name, TRUE))
               ELSE /\ req' = [req EXCEPT ![r] = [fresh EXCEPT !.pc = "initBundle"]]
                    /\ lastRender' = lastRender
    /\ UNCHANGED <<bundleLocation, builds, rendersExists, renders, now, recycled>>
    /\ UNCHANGED <<uploadVars, listVars, deleteVars>>

\* app.get('/compositions') up to its call of initializeBundle
GetCompositions(r) ==
    /\ req[r].pc = "idle"
    /\ req' = [req EXCEPT ![r] = [IdleReq EXCEPT !.route = "compositions", !.pc = "initBundle"]]
    /\ UNCHANGED <<bundleLocation, builds, rendersExists, renders, now, recycled, faults, lastRender>>
    /\ UNCHANGED <<uploadVars, listVars, deleteVars>>

\* where a handler goes on once initializeBundle has returned
AfterBundle(r) == IF req[r].route = "render" THEN "selecting" ELSE "listing"

\* an initializeBundle that joins a build already in flight
initializeBundleShared(r) ==
    /\ req[r].pc = "initBundle"
    /\ IF bundleLocation # NoBundle
       THEN /\ builds' = builds
            /\ req' = [req EXCEPT ![r].pc = AfterBundle(r),
                                  ![r].bundlePath = bundleLocation]
       ELSE IF \E q \in Req : req[q].pc = "bundling"
       THEN /\ builds' = builds
            /\ \E q \in {q \in Req : req[q].pc = "bundling"} :
                  req' = [req EXCEPT ![r].pc = "bundling", ![r].build = req[q].build]
       ELSE /\ builds' = builds + 1
            /\ req' = [req EXCEPT ![r].pc = "bundling",
                                  ![r].build = builds + 1,
                                  ![r].buildCalls = @ + 1]
    /\ UNCHANGED <<bundleLocation, rendersExists, renders, now, recycled, faults, lastRender>>
    /\ UNCHANGED <<uploadVars, listVars, deleteVars>>

\* initializeBundle up to its await: the null check and the call of bundle()
initializeBundle(r) ==
    /\ req[r].pc = "initBundle"
    /\ IF bundleLocation = NoBundle
       THEN /\ builds' = builds + 1
            /\ req' = [req EXCEPT ![r].pc = "bundling",
                                  ![r].build = builds + 1,
                                  ![r].buildCalls = @ + 1]
       ELSE /\ builds' = builds
            /\ req' = [req EXCEPT ![r].pc = AfterBundle(r),
                                  ![r].bundlePath = bundleLocation]
    /\ UNCHANGED <<bundleLocation, rendersExists, renders, now, recycled, faults, lastRender>>
    /\ UNCHANGED <<uploadVars, listVars, deleteVars>>

\* bundle() resolves: the assignment to bundleLocation and the return
bundleResolved(r) ==
    /\ req[r].pc = "bundling"
    /\ bundleLocation' = req[r].build
    /\ req' = [req EXCEPT ![r].pc = AfterBundle(r), ![r].bundlePath = req[r].build,
                          ![r].build = NoBundle]
    /\ UNCHANGED <<builds, rendersExists, renders, now, recycled, faults, lastRender>>
    /\ UNCHANGED <<uploadVars, listVars, deleteVars>>

\* bundle() rejects and the failed build is memoized all the same
bundleRejectedMemoizes(r) ==
    /\ req[r].pc = "bundling"
    /\ bundleLocation' = req[r].build
    /\ Respond(r, req[r], ErrorResp("bundle"))
    /\ UNCHANGED <<builds, rendersExists, renders, now, recycled, faults>>
    /\ UNCHANGED <<uploadVars, listVars, deleteVars>>

\* bundle() rejects: nothing is assigned, the handler's catch answers 500
bundleRejected(r) ==
    /\ req[r].pc = "bundling"
    /\ Respond(r, req[r], ErrorResp("bundle"))
    /\ UNCHANGED <<bundleLocation, builds, rendersExists, renders, now, recycled, faults>>
    /\ UNCHANGED <<uploadVars, listVars, deleteVars>>

\* ---------------------------------------------------------------------
\* The listings.  The name of an entry of ./public is a pair <<stem, ext>>,
\* ext "" when the name has no dot.

\* the words of entry names in the order of localeCompare
Collation == <<"", "a", "avatars", "B", "backdrops", "c", "jpeg", "mp4", "MP4",
               "png", "sub", "txt", "videos">>

Rank(word) == CHOOSE i \in DOMAIN Collation : Collation[i] = word

\* a.name.localeCompare(b.name)
localeCompare(a, b) ==
    IF a = b THEN 0
    ELSE IF Rank(a[1]) < Rank(b[1]) \/ (a[1] = b[1] /\ Rank(a[2]) < Rank(b[2])) THEN -1
    ELSE 1

\* ext.toLowerCase()
toLowerCase(ext) == CASE ext = "MP4" -> "mp4" [] OTHER -> ext

\* path.extname(file), without its dot
extname(file) == file[2]

\* the allow-list test on the extension as it is written
hasAllowedExtensionAsWritten(file, category) ==
    IF category = "videos"
    THEN extname(file) \in {"mp4", "webm", "mov", "avi"}
    ELSE extname(file) \in {"jpg", "jpeg", "png", "gif", "webp"}

\* the filter of getAssetsFromDir
hasAllowedExtension(file, category) ==
    IF category = "videos"
    THEN toLowerCase(extname(file)) \in {"mp4", "webm", "mov", "avi"}
    ELSE toLowerCase(extname(file)) \in {"jpg", "jpeg", "png", "gif", "webp"}

\* the entries of a directory: files and directories
FileEntry(name) ==
    [name |-> name, type |-> "file", size |-> Rank(name[1]) + Rank(name[2]),
     modified |-> Rank(name[2]), children |-> {}]
DirEntry(name, children) ==
    [name |-> name, type |-> "directory", size |-> 0, modified |-> 0, children |-> children]

\* the object getAssetsFromDir returns for one file
AssetItem(dirPath, entry) ==
    [name |-> entry.name, path |-> dirPath \o <<entry.name>>, size |-> entry.size,
     modified |-> entry.modified, extension |-> toLowerCase(extname(entry.name))]

\* assets.sort((a, b) => a.name.localeCompare(b.name))
RECURSIVE SortByName(_)
SortByName(items) ==
    IF items = {} THEN <<>>
    ELSE LET first == CHOOSE a \in items :
                          \A b \in items \ {a} : localeCompare(a.name, b.name) < 0
         IN <<first>> \o SortByName(items \ {first})

\* getAssetsFromDir(dirPath, category): access, readdir, filter, stat, sort;
\* the catch answers every failure with []
getAssetsFromDir(dirPath, category, readable, statsOk) ==
    LET dirs == {e \in assets : e.name = dirPath /\ e.type = "directory"}
    IN IF ~publicExists \/ dirs = {} \/ ~readable
       THEN <<>>
       ELSE LET files == (CHOOSE d \in dirs : TRUE).children
                kept == {e \in files : hasAllowedExtension(e.name, category)}
            IN IF kept # {} /\ ~statsOk
               THEN <<>>
               ELSE SortByName({AssetItem(<<dirPath>>, e) : e \in kept})

\* a comparator that looks at the names only
compareNodesByName(a, b) == localeCompare(a.name, b.name)

\* the comparator of buildTree's sort: directories first, then by name
compareNodes(a, b) ==
    IF a.type = "directory" /\ b.type = "file" THEN -1
    ELSE IF a.type = "file" /\ b.type = "directory" THEN 1
    ELSE localeCompare(a.name, b.name)

\* tree.sort(...)
RECURSIVE SortTree(_)
SortTree(nodes) ==
    IF nodes = {} THEN <<>>
    ELSE LET first == CHOOSE a \in nodes : \A b \in nodes \ {a} : compareNodes(a, b) < 0
         IN <<first>> \o SortTree(nodes \ {first})

\* buildTree(dirPath, relativePath): one node per entry, a directory's
\* children built by the recursive call
RECURSIVE buildTree(_, _)
buildTree(entries, relativePath) ==
    SortTree({[name |-> e.name,
               path |-> relativePath \o <<e.name>>,
               type |-> e.type,
               size |-> e.size,
               modified |-> e.modified,
               children |-> IF e.type = "directory"
                            THEN buildTree(e.children, relativePath \o <<e.name>>)
                            ELSE <<>>] : e \in entries})

\* buildPublicFileTree: a readdir or stat that fails anywhere in the walk
\* is not caught
buildPublicFileTree(walkOk) ==
    IF publicExists /\ walkOk
    THEN [threw |-> FALSE, tree |-> buildTree(assets, <<>>)]
    ELSE [threw |-> TRUE, tree |-> <<>>]

\* app.get('/compositions') after initializeBundle: getCompositions, then
\* buildPublicFileTree, then the response; a rejection of either is 500
compositionsListed(r) ==
    /\ req[r].pc = "listing"
    /\ \E getOk \in BOOLEAN, walkOk \in BOOLEAN :
         LET built == buildPublicFileTree(walkOk)
             answered == [NoListing EXCEPT !.route = "compositions"]
         IN IF ~getOk
            THEN /\ Respond(r, req[r], ErrorResp("getCompositions"))
                 /\ listing' = [answered EXCEPT !.status = 500]
            ELSE IF built.threw
            THEN /\ Respond(r, req[r], ErrorResp("listing"))
                 /\ listing' = [answered EXCEPT !.status = 500,
                                   !.fault = IF publicExists THEN "walk" ELSE "missing"]
            ELSE /\ Respond(r, req[r], SuccessResp(NoFile, FALSE))
                 /\ listing' = [answered EXCEPT !.status = 200,
                                                !.publicFileTree = built.tree]
    /\ UNCHANGED <<bundleLocation, builds, rendersExists, renders, now, recycled, faults>>
    /\ UNCHANGED <<uploadVars, assets, deleteVars>>

\* fileInfo.sort((a, b) => b.modified - a.modified): newest first, files of
\* one modification time in the order of the directory listing
RECURSIVE SortedByModified(_)
SortedByModified(infos) ==
    IF infos = {} THEN {<<>>}
    ELSE UNION {{<<f>> \o rest : rest \in SortedByModified(infos \ {f})} :
                  f \in {f \in infos : \A g \in infos : f.modified >= g.modified}}

\* app.get('/renders'): readdir and a stat of every file, neither caught
\* before the handler's catch
GetRenders ==
    /\ \E readdirOk \in BOOLEAN, statsOk \in BOOLEAN :
         LET fault == IF ~rendersExists THEN "missing"
                      ELSE IF ~readdirOk THEN "readdir"
                      ELSE IF renders # {} /\ ~statsOk THEN "stat"
                      ELSE "none"
             fileInfo == {[filename |-> f.name, modified |-> f.mtime,
                           type |-> IF EndsWith(f.name, <<".", "mp4">>) THEN "video"
                                    ELSE IF EndsWith(f.name, <<".", "png">>) THEN "still"
                                    ELSE "unknown"] : f \in renders}
             answered == [NoListing EXCEPT !.route = "renders", !.fault = fault]
         IN IF fault # "none"
            THEN listing' = [answered EXCEPT !.status = 500]
            ELSE \E files \in SortedByModified(fileInfo) :
                   listing' = [answered EXCEPT !.status = 200, !.files = files]
    /\ UNCHANGED <<renderVars, uploadVars, assets, deleteVars>>

\* app.get('/assets'): the three categories, then the files of the root of
\* ./public, whose failure is ignored
GetAssets ==
    /\ \E failing \in {"none", "videos", "backdrops", "avatars", "root"},
          fault \in {"readdir", "stat"} :
         LET readable(dir) == ~(failing = dir /\ fault = "readdir")
             statsOk(dir) == ~(failing = dir /\ fault = "stat")
             other == IF ~publicExists \/ failing = "root"
                      THEN {}
                      ELSE {AssetItem(<<>>, e) : e \in {e \in assets : e.type = "file"}}
         IN listing' = [NoListing EXCEPT
                          !.route = "assets",
                          !.status = 200,
                          !.failing = failing,
                          !.fault = IF failing = "none" THEN "none" ELSE fault,
                          !.videos = getAssetsFromDir(<<"videos", "">>, "videos",
                                        readable("videos"), statsOk("videos")),
                          !.backdrops = getAssetsFromDir(<<"backdrops", "">>, "images",
                                        readable("backdrops"), statsOk("backdrops")),
                          !.avatars = getAssetsFromDir(<<"avatars", "">>, "images",
                                        readable("avatars"), statsOk("avatars")),
                          !.other = other]
    /\ UNCHANGED <<renderVars, uploadVars, assets, deleteVars>>

\* new Date(): the clock has moved on since the last reading, or it has not;
\* the second matters only while the request that took that reading renders
ClockReadings(r) ==
    {now + 1} \cup {now : q \in {q \in Req \ {r} : req[q].pc = "rendering" /\ req[q].timestamp = now}}

\* selectComposition resolves; generateFilename, ensureRendersDir (mkdir when
\* ./renders is missing), and the call of renderMedia / renderStill
selectResolved(r) ==
    /\ req[r].pc = "selecting"
    /\ \E t \in ClockReadings(r) :
         /\ now' = t
         /\ req' = [req EXCEPT ![r].pc = "rendering",
                               ![r].selectCalls = @ + 1,
                               ![r].timestamp = t,
                               ![r].filename = generateFilename(req[r].compositionId, req[r].isStill, t),
                               ![r].engineCalls = @ + 1,
                               ![r].fsWrites = IF rendersExists THEN @ ELSE @ + 1]
    /\ rendersExists' = TRUE
    /\ UNCHANGED <<bundleLocation, builds, renders, recycled, faults, lastRender>>
    /\ UNCHANGED <<uploadVars, listVars, deleteVars>>

\* selectComposition rejects after ./renders was made
selectRejectedAfterMkdir(r) ==
    /\ req[r].pc = "selecting"
    /\ rendersExists' = TRUE
    /\ Respond(r, [req[r] EXCEPT !.selectCalls = @ + 1,
                                 !.fsWrites = IF rendersExists THEN @ ELSE @ + 1],
               ErrorResp("select"))
    /\ UNCHANGED <<bundleLocation, builds, renders, now, recycled, faults>>
    /\ UNCHANGED <<uploadVars, listVars, deleteVars>>

\* selectComposition rejects (unknown id, invalid props): 500
selectRejected(r) ==
    /\ req[r].pc = "selecting"
    /\ Respond(r, [req[r] EXCEPT !.selectCalls = @ + 1], ErrorResp("select"))
    /\ UNCHANGED <<bundleLocation, builds, rendersExists, renders, now, recycled, faults>>
    /\ UNCHANGED <<uploadVars, listVars, deleteVars>>

\* ensureRendersDir: access fails and mkdir throws: 500
ensureRendersDirFailed(r) ==
    /\ req[r].pc = "selecting"
    /\ ~rendersExists
    /\ faults < MaxFaults
    /\ faults' = faults + 1
    /\ Respond(r, [req[r] EXCEPT !.selectCalls = @ + 1], ErrorResp("mkdir"))
    /\ UNCHANGED <<bundleLocation, builds, rendersExists, renders, now, recycled>>
    /\ UNCHANGED <<uploadVars, listVars, deleteVars>>

\* a render that leaves no file
WriteNothing(files, name, mtime) == files

\* a write whose modification time lies before every other file's
WriteFileBackdated(files, name, mtime) ==
    {f \in files : f.name # name} \cup {[name |-> name, mtime |-> 0]}

\* writing outputLocation: a file of that name is replaced
WriteFile(files, name, mtime) ==
    {f \in files : f.name # name} \cup {[name |-> name, mtime |-> mtime]}

\* renderMedia / renderStill resolves: the artifact is on disk, stamped with
\* the time the write ended
renderResolved(r) ==
    /\ req[r].pc = "rendering"
    /\ now' = now + 1
    /\ renders' = WriteFile(renders, req[r].filename, now')
    /\ req' = [req EXCEPT ![r].pc = "cleanup", ![r].fsWrites = @ + 1]
    /\ UNCHANGED <<bundleLocation, builds, rendersExists, recycled, faults, lastRender>>
    /\ UNCHANGED <<uploadVars, listVars, deleteVars>>

\* renderMedia / renderStill rejects and the handler removes the artifacts of
\* the composition before it answers
renderRejectedCleansUp(r) ==
    /\ req[r].pc = "rendering"
    /\ now' = now + 1
    /\ renders' = renders \ Matching(renders, req[r].compositionId, req[r].isStill)
    /\ Respond(r, req[r], ErrorResp("render"))
    /\ UNCHANGED <<bundleLocation, builds, rendersExists, recycled, faults>>
    /\ UNCHANGED <<uploadVars, listVars, deleteVars>>

\* a handler that calls the engine again after a rejection
renderRejectedRetries(r) ==
    /\ req[r].pc = "rendering"
    /\ now' = now + 1
    /\ IF req[r].engineCalls < 2
       THEN /\ req' = [req EXCEPT ![r].engineCalls = @ + 1]
            /\ UNCHANGED lastRender
       ELSE Respond(r, req[r], ErrorResp("render"))
    /\ UNCHANGED <<bundleLocation, builds, rendersExists, renders, recycled, faults>>
    /\ UNCHANGED <<uploadVars, listVars, deleteVars>>

\* renderMedia / renderStill rejects: 500, the output file is left as it is
renderRejected(r) ==
    /\ req[r].pc = "rendering"
    /\ now' = now + 1
    /\ \E partial \in BOOLEAN :
         /\ renders' = IF partial THEN WriteFile(renders, req[r].filename, now') ELSE renders
         /\ Respond(r, [req[r] EXCEPT !.fsWrites = IF partial THEN @ + 1 ELSE @],
                    ErrorResp("render"))
    /\ UNCHANGED <<bundleLocation, builds, rendersExists, recycled, faults>>
    /\ UNCHANGED <<uploadVars, listVars, deleteVars>>

\* the subsets of S with k elements
RECURSIVE KSubsets(_, _)
KSubsets(S, k) ==
    IF k = 0 THEN {{}}
    ELSE IF Cardinality(S) < k THEN {}
    ELSE LET x == CHOOSE y \in S : TRUE
         IN {D \cup {x} : D \in KSubsets(S \ {x}, k - 1)} \cup KSubsets(S \ {x}, k)

\* the sets of k files of S that can end the list sorted newest first: no
\* file of the set is newer than a file outside it
RECURSIVE Oldest(_, _)
Oldest(S, k) ==
    IF k = 0 THEN {{}}
    ELSE LET firsts == {f \in S : \A g \in S : f.mtime <= g.mtime}
         IN UNION {{D \cup {f} : D \in Oldest(S \ {f}, k - 1)} : f \in firsts}

\* the sets of k files of S that end the list sorted oldest first
RECURSIVE Newest(_, _)
Newest(S, k) ==
    IF k = 0 THEN {{}}
    ELSE LET lasts == {f \in S : \A g \in S : f.mtime >= g.mtime}
         IN UNION {{D \cup {f} : D \in Newest(S \ {f}, k - 1)} : f \in lasts}

\* the slice of a list sorted oldest first
filesToDeleteAscending(compositionFiles, statsOk) ==
    LET n == Cardinality(compositionFiles)
        k == IF n > KeepCount THEN n - KeepCount ELSE 0
    IN Newest(compositionFiles, k)

\* compositionFiles.sort(...).slice(10): the sets the slice can hold.  With
\* every stat at hand the sort is stable and descending by mtime, over a
\* listing whose order is the file system's.  A file without stats compares
\* equal to every other, the order is then the engine's, and any file can
\* end behind position 10.
filesToDelete(compositionFiles, statsOk) ==
    LET n == Cardinality(compositionFiles)
        k == IF n > KeepCount THEN n - KeepCount ELSE 0
    IN IF statsOk THEN Oldest(compositionFiles, k) ELSE KSubsets(compositionFiles, k)

\* fs.stat of a listed file fails without any fault of the file system when
\* the unlink loop of another request removes the file after the readdir
StatRaces(r, compositionFiles) ==
    {FALSE : q \in {q \in Req \ {r} : /\ req[q].pc = "unlink"
                                      /\ req[q].toDelete \cap Names(compositionFiles) # {}}}

\* cleanupOldFiles up to the unlink loop: readdir, filter, stat, sort, slice
cleanupScan(r) ==
    /\ req[r].pc = "cleanup"
    /\ \E readdirOk \in FsOutcomes :
         IF ~readdirOk
         THEN /\ req' = [req EXCEPT ![r].pc = "unlink", ![r].cleanups = @ + 1,
                                    ![r].toDelete = {}, ![r].pruneFaulted = TRUE]
              /\ FsCall(FALSE)
         ELSE LET compositionFiles == Matching(renders, req[r].compositionId, req[r].isStill)
              IN \E statsOk \in (IF compositionFiles = {} THEN {TRUE}
                                 ELSE FsOutcomes \cup StatRaces(r, compositionFiles)) :
                   /\ FsCall(statsOk \/ StatRaces(r, compositionFiles) # {})
                   /\ \E D \in filesToDelete(compositionFiles, statsOk) :
                        req' = [req EXCEPT ![r].pc = "unlink",
                                           ![r].cleanups = @ + 1,
                                           ![r].toDelete = Names(D),
                                           ![r].pruneFaulted = ~statsOk]
    /\ UNCHANGED <<bundleLocation, builds, rendersExists, renders, now, recycled, lastRender>>
    /\ UNCHANGED <<uploadVars, listVars, deleteVars>>

\* an unlink loop that a failing unlink ends, the error reaching the handler
cleanupUnlinkThrows(r) ==
    /\ req[r].pc = "unlink"
    /\ \E unlinkFailed \in {u \in SUBSET req[r].toDelete : faults + Cardinality(u) <= MaxFaults} :
         /\ renders' = IF unlinkFailed = {}
                       THEN {f \in renders : f.name \notin req[r].toDelete}
                       ELSE renders
         /\ faults' = faults + Cardinality(unlinkFailed)
         /\ Respond(r, [req[r] EXCEPT !.pruneFaulted = @ \/ unlinkFailed # {}],
                    IF unlinkFailed = {} THEN SuccessResp(req[r].filename, FALSE)
                    ELSE ErrorResp("unlink"))
    /\ UNCHANGED <<bundleLocation, builds, rendersExists, now, recycled>>
    /\ UNCHANGED <<uploadVars, listVars, deleteVars>>

\* an unlink loop that leaves alone the artifacts of requests still in flight
cleanupUnlinkSparesFresh(r) ==
    /\ req[r].pc = "unlink"
    /\ LET fresh == {req[q].filename : q \in Req \ {r}}
           gone == Names(renders) \cap (req[r].toDelete \ fresh)
       IN /\ renders' = {f \in renders : f.name \notin gone}
          /\ Respond(r, [req[r] EXCEPT !.fsWrites = @ + Cardinality(gone)],
                     SuccessResp(req[r].filename, FALSE))
    /\ UNCHANGED <<bundleLocation, builds, rendersExists, now, recycled, faults>>
    /\ UNCHANGED <<uploadVars, listVars, deleteVars>>

\* the unlink loop of cleanupOldFiles (an unlink that fails is logged and
\* skipped), then the handler's success response
cleanupUnlink(r) ==
    /\ req[r].pc = "unlink"
    /\ \E unlinkFailed \in {u \in SUBSET req[r].toDelete : faults + Cardinality(u) <= MaxFaults} :
         LET gone == Names(renders) \cap (req[r].toDelete \ unlinkFailed)
         IN /\ renders' = {f \in renders : f.name \notin gone}
            /\ faults' = faults + Cardinality(unlinkFailed)
            /\ Respond(r, [req[r] EXCEPT !.fsWrites = @ + Cardinality(gone),
                                         !.pruneFaulted = @ \/ gone # req[r].toDelete],
                       SuccessResp(req[r].filename, FALSE))
    /\ UNCHANGED <<bundleLocation, builds, rendersExists, now, recycled>>
    /\ UNCHANGED <<uploadVars, listVars, deleteVars>>

\* the slot takes its next request
recycle(r) ==
    /\ req[r].pc = "done"
    /\ recycled < MaxRecycles
    /\ recycled' = recycled + 1
    /\ req' = [req EXCEPT ![r] = IdleReq]
    /\ UNCHANGED <<bundleLocation, builds, rendersExists, renders, now, faults, lastRender>>
    /\ UNCHANGED <<uploadVars, listVars, deleteVars>>

\* the steps of a handler after its request is in
Continue(r) ==
    \/ initializeBundle(r)
    \/ bundleResolved(r)
    \/ bundleRejected(r)
    \/ selectResolved(r)
    \/ selectRejected(r)
    \/ renderResolved(r)
    \/ renderRejected(r)
    \/ cleanupScan(r)
    \/ cleanupUnlink(r)

\* ---------------------------------------------------------------------
\* POST /upload/image.  A payload is a sequence of tokens, each a run of
\* characters: "data:", a word of a mime type, "/", ";base64,", and groups of
\* four base64 characters.

\* the words made of the characters [A-Za-z-+] only
MimeWords == {"image", "text", "png", "jpeg"}

Payloads ==
    {<<"data:", "image", "/", "png", ";base64,", "AAAA">>,
     <<"data:", "image", "/", "png", ";base64,", "AAA=">>,
     <<"data:", "image", "/", "png", ";base64,", "AAB=">>,
     <<"data:", "image", "/", "jpeg", ";base64,", "AAAA">>,
     <<"data:", "image", "/", ";base64,", "AAAA", "AAA=">>,
     <<"data:", "image", "/", "png", ";base64,">>,
     <<"data:", "image", "/", "x1", ";base64,", "AAAA">>,
     <<"data:", "text", "/", "png", ";base64,", "AAAA">>,
     <<>>}

\* base64Data.startsWith('data:image/')
StartsWithDataImage(base64Data) == StartsWith(base64Data, <<"data:", "image", "/">>)

\* the position of ";base64," in a payload that matches
\* /^data:([A-Za-z-+\/]+);base64,(.+)$/, 0 when the payload does not match
MatchPosition(base64Data) ==
    LET ok == {i \in 3..(Len(base64Data) - 1) :
                 /\ base64Data[1] = "data:"
                 /\ base64Data[i] = ";base64,"
                 /\ \A j \in 2..(i - 1) : base64Data[j] \in MimeWords \cup {"/"}}
    IN IF ok = {} THEN 0 ELSE CHOOSE i \in ok : TRUE

\* matches[1] and matches[2]
MimeType(base64Data) == SubSeq(base64Data, 2, MatchPosition(base64Data) - 1)
Base64String(base64Data) == SubSeq(base64Data, MatchPosition(base64Data) + 1, Len(base64Data))

\* mimeType.split('/')[1] || 'png'
Extension(mimeType) ==
    LET slashes == {i \in 1..Len(mimeType) : mimeType[i] = "/"}
        first == IF slashes = {} THEN Len(mimeType) + 1
                 ELSE CHOOSE i \in slashes : \A j \in slashes : i <= j
        later == {i \in slashes : i > first}
        second == IF later = {} THEN Len(mimeType) + 1
                  ELSE CHOOSE i \in later : \A j \in later : i <= j
        part == SubSeq(mimeType, first + 1, second - 1)
    IN IF part = <<>> THEN <<"png">> ELSE part

\* crypto.createHash('md5').update(base64String).digest('hex'): a function of
\* the base64 text, taken to be free of collisions
Md5(base64String) == <<"md5(">> \o base64String \o <<")">>

\* a name made from the count of uploads so far
UploadFilenameByCount(base64String, extension) ==
    <<"uploaded_", ToString(Len(uploads)), ".">> \o extension

\* `uploaded_${hash}.${extension}`
UploadFilename(base64String, extension) ==
    <<"uploaded_">> \o Md5(base64String) \o <<".">> \o extension

\* the bytes of one group of four base64 characters; padding ends the group,
\* bits that do not fill a byte are dropped
DecodeGroup(group) ==
    CASE group = "AAAA" -> <<0, 0, 0>>
      [] group = "AAA=" -> <<0, 0>>
      [] group = "AAB=" -> <<0, 0>>
      [] OTHER -> <<>>

\* Buffer.from(base64String, 'base64')
RECURSIVE BufferFromBase64(_)
BufferFromBase64(base64String) ==
    IF base64String = <<>> THEN <<>>
    ELSE DecodeGroup(Head(base64String)) \o BufferFromBase64(Tail(base64String))

\* fs.writeFile(filePath, buffer): a file of that name is replaced
WritePublic(files, name, bytes) ==
    {f \in files : f.name # name} \cup {[name |-> name, bytes |-> bytes]}

\* saveBase64Image: ensurePublicDir, the pattern, the filename, the write.
\* threw stands for the one error every failure is rethrown as
saveBase64Image(base64Data, mkdirOk, writeOk) ==
    IF ~publicExists /\ ~mkdirOk
    THEN [threw |-> TRUE, fsFailed |-> TRUE, filename |-> NoFile,
          exists |-> publicExists, files |-> publicFiles]
    ELSE IF MatchPosition(base64Data) = 0
    THEN [threw |-> TRUE, fsFailed |-> FALSE, filename |-> NoFile,
          exists |-> TRUE, files |-> publicFiles]
    ELSE IF ~writeOk
    THEN [threw |-> TRUE, fsFailed |-> TRUE, filename |-> NoFile,
          exists |-> TRUE, files |-> publicFiles]
    ELSE LET filename == UploadFilename(Base64String(base64Data),
                                        Extension(MimeType(base64Data)))
         IN [threw |-> FALSE, fsFailed |-> FALSE, filename |-> filename,
             exists |-> TRUE,
             files |-> WritePublic(publicFiles, filename,
                                   BufferFromBase64(Base64String(base64Data)))]

\* one answered upload; existed and changed tell whether a file of the
\* returned name was there before and whether ./public's files changed,
\* madeDir whether the request created ./public
Answered(base64Data, status, saved) ==
    [payload |-> base64Data, status |-> status, filename |-> saved.filename,
     fsFailed |-> saved.fsFailed,
     existed |-> saved.filename \in Names(publicFiles),
     changed |-> saved.files # publicFiles,
     madeDir |-> saved.exists /\ ~publicExists]

\* app.post('/upload/image')
PostUploadImage(base64Data) ==
    /\ Len(uploads) < MaxUploads
    /\ \E mkdirOk \in (IF publicExists THEN {TRUE} ELSE BOOLEAN), writeOk \in BOOLEAN :
         LET rejected == [threw |-> FALSE, fsFailed |-> FALSE, filename |-> NoFile,
                          exists |-> publicExists, files |-> publicFiles]
             saved == IF base64Data = <<>> \/ ~StartsWithDataImage(base64Data)
                      THEN rejected
                      ELSE saveBase64Image(base64Data, mkdirOk, writeOk)
             status == IF base64Data = <<>> \/ ~StartsWithDataImage(base64Data) THEN 400
                       ELSE IF saved.threw THEN 500
                       ELSE 200
         IN /\ publicExists' = saved.exists
            /\ publicFiles' = saved.files
            /\ uploads' = Append(uploads, Answered(base64Data, status, saved))
    /\ UNCHANGED renderVars
    /\ UNCHANGED <<listVars, deleteVars>>

InitUpload ==
    /\ Started
    /\ faults = 0
    /\ rendersExists = FALSE
    /\ renders = {}
    /\ publicExists \in BOOLEAN
    /\ publicFiles = {}
    /\ assets = {}

NextUpload == \E base64Data \in Payloads : PostUploadImage(base64Data)

SpecUpload == InitUpload /\ [][NextUpload]_vars

\* ---------------------------------------------------------------------
\* DELETE /renders/:filename.  The parameter is the decoded text of one
\* segment of the URL (%2F decodes to "/"); it is held as the sequence of
\* the names that "/" separates.

\* the name ".." of the parent directory
DotDot == <<"..">>

\* path.resolve(base, filename): the names of filename are applied to base
\* from left to right, ".." leaves a directory, the root is its own parent
RECURSIVE resolve(_, _)
resolve(base, filename) ==
    IF filename = <<>> THEN base
    ELSE resolve(IF Head(filename) = DotDot
                 THEN (IF base = <<>> THEN <<>> ELSE SubSeq(base, 1, Len(base) - 1))
                 ELSE Append(base, Head(filename)),
                 Tail(filename))

\* the paths of the regular files on disk
FsPaths ==
    {Append(RendersDir, f.name) : f \in renders}
    \cup {Append(PublicDir, f.name) : f \in publicFiles}
    \cup {Append(Cwd, n) : n \in projectFiles}

\* the answer of a DELETE
Deleted(status, filename, filePath) ==
    [count |-> deletion.count + 1, status |-> status, filename |-> filename,
     filePath |-> filePath, epoch |-> recycled]

\* a handler whose unlink is content with a missing file
DeleteRenderForce(filename) ==
    /\ deletion.count < MaxDeletes
    /\ LET filePath == resolve(RendersDir, filename)
       IN /\ renders' = {f \in renders : Append(RendersDir, f.name) # filePath}
          /\ publicFiles' = {f \in publicFiles : Append(PublicDir, f.name) # filePath}
          /\ projectFiles' = {n \in projectFiles : Append(Cwd, n) # filePath}
          /\ deletion' = Deleted(200, filename, filePath)
    /\ UNCHANGED <<bundleLocation, builds, rendersExists, now, recycled, faults, lastRender, req>>
    /\ UNCHANGED <<publicExists, uploads, listVars>>

\* app.delete('/renders/:filename'): unlink of the resolved path; a path
\* that names no regular file, or an unlink that fails, is answered 500
DeleteRender(filename) ==
    /\ deletion.count < MaxDeletes
    /\ LET filePath == resolve(RendersDir, filename)
       IN \E unlinkOk \in FsOutcomes :
            IF unlinkOk /\ filePath \in FsPaths
            THEN /\ renders' = {f \in renders : Append(RendersDir, f.name) # filePath}
                 /\ publicFiles' = {f \in publicFiles : Append(PublicDir, f.name) # filePath}
                 /\ projectFiles' = {n \in projectFiles : Append(Cwd, n) # filePath}
                 /\ deletion' = Deleted(200, filename, filePath)
                 /\ FsCall(TRUE)
            ELSE /\ UNCHANGED <<renders, publicFiles, projectFiles>>
                 /\ deletion' = Deleted(500, filename, filePath)
                 /\ FsCall(unlinkOk)
    /\ UNCHANGED <<bundleLocation, builds, rendersExists, now, recycled, lastRender, req>>
    /\ UNCHANGED <<publicExists, uploads, listVars>>

\* the filename parameters of the runs: artifacts that exist, one that does
\* not, the directory above, and paths that lead out of ./renders
DeleteParams ==
    {<<generateFilename(<<"A">>, FALSE, 1)>>,
     <<generateFilename(<<"A">>, TRUE, 1)>>,
     <<generateFilename(<<"A", "B">>, FALSE, 1)>>,
     <<generateFilename(<<"A">>, FALSE, 0)>>,
     <<DotDot>>,
     <<DotDot, <<"package", ".", "json">>>>,
     <<DotDot, <<"renders">>, generateFilename(<<"A">>, FALSE, 2)>>}

\* ./renders as earlier runs left it, DELETE requests, and render requests
\* with compositionCache true, one at a time
InitDelete ==
    /\ Started
    /\ faults = 0
    /\ publicExists = TRUE
    /\ publicFiles = {}
    /\ assets = {}
    /\ rendersExists = TRUE
    /\ renders = InitRenders(2, FALSE, TRUE)

NextDelete ==
    \/ \E filename \in DeleteParams : DeleteRender(filename)
    \/ \E s \in BOOLEAN : PostRender(1, <<"A">>, s, "true", DefaultProps)
    \/ Continue(1)
    \/ recycle(1)

SpecDelete == InitDelete /\ [][NextDelete]_vars

CacheFields == {"true", "false", "omitted"}

\* requests for composition A, one at a time on one slot
Next ==
    \/ \E s \in BOOLEAN, cache \in CacheFields : PostRender(1, <<"A">>, s, cache, DefaultProps)
    \/ \E s \in BOOLEAN : PostRenderInvalid(1, s)
    \/ GetCompositions(1)
    \/ Continue(1)
    \/ compositionsListed(1)
    \/ ensureRendersDirFailed(1)
    \/ recycle(1)

Spec == Init /\ [][Next]_vars

\* an empty ./renders, in runs where no file system call fails
InitProps ==
    /\ Started
    /\ faults = MaxFaults
    /\ publicExists = TRUE
    /\ publicFiles = {}
    /\ assets = {}
    /\ rendersExists = TRUE
    /\ renders = {}

\* uncached video renders of composition A on every slot, interleaving
NextConc ==
    \E r \in Req :
        \/ PostRender(r, <<"A">>, FALSE, "false", DefaultProps)
        \/ Continue(r)
        \/ recycle(r)

SpecConc == InitProps /\ [][NextConc]_vars

\* two requests in flight at once
Racers == {1, 2}

\* two uncached video renders of composition A, interleaving
NextRace ==
    \E r \in Racers :
        \/ PostRender(r, <<"A">>, FALSE, "false", DefaultProps)
        \/ Continue(r)

SpecRace == InitConc /\ [][NextRace]_vars

\* requests for composition A with any inputProps, one at a time
NextProps ==
    \/ \E s \in BOOLEAN, cache \in CacheFields, props \in InputProps :
          PostRender(1, <<"A">>, s, cache, props)
    \/ Continue(1)
    \/ recycle(1)

SpecProps == InitProps /\ [][NextProps]_vars

\* the names a directory of ./public can hold
EntryNames == {<<"a", "mp4">>, <<"B", "MP4">>, <<"c", "png">>, <<"a", "txt">>,
               <<"c", "">>, <<"B", "jpeg">>}

SmallSets(S) == {T \in SUBSET S : Cardinality(T) <= MaxEntries}

\* the directories of ./public: none, videos only, or all three categories;
\* each holds the files of these names and, when nested, a directory of them
PublicDirs(present, names, nested) ==
    LET children == {FileEntry(n) : n \in names}
                    \cup (IF nested THEN {DirEntry(<<"sub", "">>, {FileEntry(n) : n \in names})}
                          ELSE {})
    IN {DirEntry(<<d, "">>, children) : d \in present}

InitList ==
    /\ Started
    /\ faults = MaxFaults
    /\ publicFiles = {}
    /\ publicExists \in BOOLEAN
    /\ rendersExists \in BOOLEAN
    /\ \E extras \in BOOLEAN :
         renders = IF rendersExists THEN InitRenders(MaxInitFiles, FALSE, extras) ELSE {}
    /\ \E names \in SmallSets(EntryNames),
          present \in {{}, {"videos"}, {"videos", "backdrops", "avatars"}},
          nested \in BOOLEAN :
         assets = IF publicExists
                  THEN {FileEntry(n) : n \in names} \cup PublicDirs(present, names, nested)
                  ELSE {}

\* the listing endpoints, one request at a time
NextList ==
    \/ GetRenders
    \/ GetAssets
    \/ GetCompositions(1)
    \/ initializeBundle(1)
    \/ bundleResolved(1)
    \/ bundleRejected(1)
    \/ compositionsListed(1)

SpecList == InitList /\ [][NextList]_vars

\* ---------------------------------------------------------------------
\* Properties

\* the render requests that are in or answered
RenderReqs == {r \in Req : req[r].route = "render"}

\* C1: a render request (video or still) with compositionCache true that finds
\* a matching file in ./renders (name starts with the composition id and ends
\* with the kind's extension; the directory listing succeeds) is answered 200
\* with cached true and the name of such a file, and a cached answer comes
\* with no call of the engine, no bundle build or use, no selectComposition,
\* no cleanupOldFiles and no change of ./renders.
C1_CacheHit ==
    \A r \in RenderReqs :
        /\ (req[r].compositionCache /\ req[r].matchOnDisk /\ req[r].lookup # "error")
              => /\ req[r].pc = "done"
                 /\ req[r].resp.status = 200
                 /\ req[r].resp.cached
        /\ req[r].resp.cached
              => /\ req[r].lookup = "hit"
                 /\ StartsWith(req[r].resp.filename, req[r].compositionId)
                 /\ EndsWith(req[r].resp.filename, DotExtension(req[r].isStill))
                 /\ req[r].engineCalls = 0
                 /\ req[r].buildCalls = 0
                 /\ req[r].bundlePath = NoBundle
                 /\ req[r].selectCalls = 0
                 /\ req[r].cleanups = 0
                 /\ req[r].fsWrites = 0

\* a still was answered from the cache, on a server that has built no bundle
C1_CacheHit_Witness ==
    \E r \in RenderReqs :
        /\ req[r].isStill
        /\ req[r].matchOnDisk
        /\ req[r].resp.cached
        /\ builds = 0

\* C2: a render request with compositionCache false or omitted never looks
\* for a cached file and is never answered cached; it calls the engine once
\* even when a matching file is on disk, unless the bundle build,
\* selectComposition or the creation of ./renders failed before.
C2_NoCache ==
    \A r \in RenderReqs :
        req[r].cacheField # "true"
           => /\ req[r].lookup = "none"
              /\ ~req[r].resp.cached
              /\ req[r].pc \in {"rendering", "cleanup", "unlink"} => req[r].engineCalls = 1
              /\ req[r].pc = "done"
                    => \/ req[r].engineCalls = 1
                       \/ /\ req[r].engineCalls = 0
                          /\ req[r].resp.error \in {"bundle", "select", "mkdir"}

\* a request that omitted the flag rendered anew although a matching file
\* was on disk
C2_NoCache_Witness ==
    \E r \in RenderReqs :
        /\ req[r].cacheField = "omitted"
        /\ req[r].matchOnDisk
        /\ req[r].pc = "done"
        /\ req[r].resp.status = 200
        /\ req[r].engineCalls = 1

\* what cleanupOldFiles(C, K) leaves of the files before, for the request of
\* slot r whose unlink loop runs in this step
PruneKeepsNewest(r) ==
    LET before == Matching(renders, req[r].compositionId, req[r].isStill)
        after == Matching(renders', req[r].compositionId, req[r].isStill)
    IN /\ Cardinality(after) <= KeepCount
       /\ after \subseteq before
       /\ Cardinality(before) <= KeepCount => after = before
       /\ Cardinality(before) > KeepCount => Cardinality(after) = KeepCount
       /\ \A f \in after, g \in before \ after : f.mtime >= g.mtime
       /\ renders' \ after = renders \ before

\* C3 as stated: whatever fails, cleanupOldFiles leaves at most 10 matching
\* files, the 10 most recently modified.
C3_PruneAlways ==
    [][\A r \in Req :
          (req[r].pc = "unlink" /\ req'[r].pc = "done") => PruneKeepsNewest(r)]_vars

\* C3: when readdir, every stat and every unlink of a call of
\* cleanupOldFiles(C, K) succeed and nothing else writes ./renders during the
\* call, it leaves at most 10 files matching C and K, all of them when there
\* were 10 or fewer and otherwise 10 none of which is older than a deleted
\* one, and it leaves every other file alone.
C3_Prune ==
    [][\A r \in Req :
          (req[r].pc = "unlink" /\ req'[r].pc = "done" /\ ~req'[r].pruneFaulted)
             => PruneKeepsNewest(r)]_vars

\* a call without failures has deleted files and left 10, next to a file of
\* the other kind
C3_Prune_Witness ==
    \E r \in RenderReqs :
        /\ req[r].pc = "done"
        /\ req[r].cleanups = 1
        /\ ~req[r].pruneFaulted
        /\ req[r].fsWrites >= 2
        /\ Cardinality(Matching(renders, req[r].compositionId, req[r].isStill)) = KeepCount
        /\ Cardinality(renders) > KeepCount

\* C4 as stated: a call of initializeBundle that starts when a bundle
\* location is memoized builds nothing and returns the location that every
\* call completed before it returned.
C4_SameLocation ==
    [][\A r \in Req :
          (req[r].pc = "initBundle" /\ bundleLocation # NoBundle /\ req'[r].pc # "initBundle")
             => /\ builds' = builds
                /\ \A q \in Req : req[q].bundlePath # NoBundle
                                     => req'[r].bundlePath = req[q].bundlePath]_vars

\* C5 as stated: all requests of the process use one bundle location, also
\* when several of them called initializeBundle before a build had finished.
C5_OneBundle ==
    \A q, r \in Req :
        (req[q].bundlePath # NoBundle /\ req[r].bundlePath # NoBundle)
           => req[q].bundlePath = req[r].bundlePath

\* C6: when bundle() rejects, the request that called it is answered 500 and
\* bundleLocation is left as it was, null; and a call of initializeBundle
\* that finds bundleLocation null calls bundle() again.
C6_BuildFailure ==
    [][\A r \in Req :
          /\ (req[r].pc = "bundling" /\ req'[r].pc = "done")
                => /\ req'[r].resp.status = 500
                   /\ req'[r].resp.error = "bundle"
                   /\ bundleLocation = NoBundle
                   /\ bundleLocation' = NoBundle
          /\ (req[r].pc = "initBundle" /\ req'[r].pc # "initBundle" /\ bundleLocation = NoBundle)
                => /\ req'[r].pc = "bundling"
                   /\ req'[r].buildCalls = 1
                   /\ builds' = builds + 1]_vars

\* the first build failed, the next request built again and its build is
\* the one memoized
C6_BuildFailure_Witness ==
    /\ builds = 2
    /\ bundleLocation = 2
    /\ \E r \in Req : req[r].buildCalls = 1 /\ req[r].bundlePath = 2

\* C7: uploads of one payload that succeed all return the same filename;
\* after a successful upload ./public holds exactly one file of the returned
\* name and it holds the decoded bytes; an upload that finds its file present
\* leaves the files of ./public as they are; and a payload that was stored
\* once is refused later only when a file system call fails.
C7_UploadIdempotent ==
    \A i \in DOMAIN uploads :
        /\ uploads[i].status = 200
              => /\ Cardinality({f \in publicFiles : f.name = uploads[i].filename}) = 1
                 /\ \A f \in publicFiles :
                        f.name = uploads[i].filename
                           => f.bytes = BufferFromBase64(Base64String(uploads[i].payload))
                 /\ \A j \in DOMAIN uploads :
                        (uploads[j].payload = uploads[i].payload /\ uploads[j].status = 200)
                           => uploads[j].filename = uploads[i].filename
                 /\ uploads[i].existed => ~uploads[i].changed
        /\ (uploads[i].status # 200 /\ ~uploads[i].fsFailed)
              => \A j \in 1..(i - 1) :
                     uploads[j].payload = uploads[i].payload => uploads[j].status # 200

\* one payload was uploaded three times with success
C7_UploadIdempotent_Witness ==
    /\ Len(uploads) = 3
    /\ \A i \in DOMAIN uploads :
          /\ uploads[i].status = 200
          /\ uploads[i].payload = uploads[1].payload
    /\ uploads[3].existed
    /\ Cardinality(publicFiles) = 1

\* C8: the lookup of a cached file changes neither ./renders nor its files,
\* and when the directory is missing, unreadable or empty it finds nothing
\* and throws nothing: the request goes on to initializeBundle unanswered.
C8_LookupNeverFails ==
    [][\A r \in Req :
          (req[r].pc = "idle" /\ req'[r].route = "render" /\ req'[r].compositionCache)
             => /\ renders' = renders
                /\ rendersExists' = rendersExists
                /\ req'[r].resp.error # "lookup"
                /\ (~rendersExists \/ renders = {} \/ req'[r].lookup = "error")
                      => /\ req'[r].lookup \in {"miss", "error"}
                         /\ req'[r].pc = "initBundle"
                         /\ req'[r].resp = NoResp]_vars

\* a request with the cache enabled could not list ./renders and then
\* rendered as usual
C8_LookupNeverFails_Witness ==
    \E r \in RenderReqs :
        /\ req[r].compositionCache
        /\ req[r].lookup = "error"
        /\ req[r].pc = "done"
        /\ req[r].resp.status = 200
        /\ ~req[r].resp.cached
        /\ req[r].engineCalls = 1

\* C9: a render request that was not answered from the cache calls the
\* engine once, after selectComposition, with the output name
\* {compositionId}_{timestamp}.{mp4|png}; the engine's success adds exactly
\* that file to ./renders; cleanupOldFiles runs once, after the engine and
\* before the response; the response is 200 with cached false and that name,
\* whose file is on disk when no call of the pruning failed; and such a
\* request is refused only when the build, selectComposition, the creation
\* of ./renders or the engine failed.  Requests run one at a time.
C9_UncachedRender ==
    [][\A r \in Req :
          /\ (req[r].pc = "selecting" /\ req'[r].pc = "rendering")
                => /\ req[r].engineCalls = 0
                   /\ req'[r].engineCalls = 1
                   /\ req'[r].selectCalls = 1
                   /\ req'[r].cleanups = 0
                   /\ req'[r].filename =
                         req[r].compositionId \o <<"_", ToString(req'[r].timestamp)>>
                            \o (IF req[r].isStill THEN <<".", "png">> ELSE <<".", "mp4">>)
          /\ (req[r].pc = "rendering" /\ req'[r].pc = "cleanup")
                => /\ Names(renders') \ Names(renders) = {req[r].filename}
                   /\ renders \subseteq renders'
                   /\ Cardinality(renders') = Cardinality(renders) + 1
                   /\ req'[r].cleanups = 0
                   /\ req'[r].resp = NoResp
          /\ (req[r].pc = "cleanup" /\ req'[r].pc = "unlink")
                => /\ req'[r].engineCalls = 1
                   /\ req'[r].cleanups = 1
                   /\ req'[r].resp = NoResp
          /\ (req[r].pc = "unlink" /\ req'[r].pc = "done")
                => /\ req'[r].resp = [status |-> 200, cached |-> FALSE,
                                      filename |-> req[r].filename, error |-> "none"]
                   /\ req'[r].engineCalls = 1
                   /\ req'[r].cleanups = 1
                   /\ ~req'[r].pruneFaulted => req[r].filename \in Names(renders')
          /\ (req[r].pc # "done" /\ req'[r].pc = "done" /\ req'[r].route = "render"
                 /\ req'[r].lookup # "hit")
                => \/ req[r].pc = "unlink"
                   \/ /\ req'[r].resp.status = 500
                      /\ req'[r].resp.error \in {"bundle", "select", "mkdir", "render"}]_vars

\* a still was rendered after a cache miss and its file is the only one
C9_UncachedRender_Witness ==
    \E r \in RenderReqs :
        /\ req[r].lookup = "miss"
        /\ req[r].isStill
        /\ req[r].pc = "done"
        /\ req[r].resp.status = 200
        /\ Names(renders) = {req[r].resp.filename}

\* the request of slot r asks with the cache enabled for the composition and
\* kind of the render answered just before it, and could list ./renders
FollowsRender(r) ==
    /\ req[r].route = "render"
    /\ req[r].pc = "done"
    /\ req[r].compositionCache
    /\ req[r].lookup # "error"
    /\ req[r].prevRender.filename # NoFile
    /\ req[r].prevRender.compositionId = req[r].compositionId
    /\ req[r].prevRender.isStill = req[r].isStill

\* C10 as stated: the cache-enabled request that follows a successful
\* uncached render of the same composition and kind is answered cached, with
\* no engine call and with the filename that render returned.
C10_SameFilename ==
    \A r \in Req :
        FollowsRender(r)
           => /\ req[r].resp.cached
              /\ req[r].engineCalls = 0
              /\ req[r].resp.filename = req[r].prevRender.filename

\* C10: the cache-enabled request that follows a successful uncached render
\* of the same composition and kind is answered 200 and cached, with no
\* engine call, with the name of a file of ./renders that starts with the
\* composition id and ends with the kind's extension: the name the render
\* returned when that is the only such file.
C10_CachedAfterRender ==
    \A r \in Req :
        FollowsRender(r)
           => /\ req[r].resp.status = 200
              /\ req[r].resp.cached
              /\ req[r].engineCalls = 0
              /\ req[r].resp.filename \in Names(renders)
              /\ StartsWith(req[r].resp.filename, req[r].compositionId)
              /\ EndsWith(req[r].resp.filename, DotExtension(req[r].isStill))
              /\ (\A f \in renders :
                     (StartsWith(f.name, req[r].compositionId)
                         /\ EndsWith(f.name, DotExtension(req[r].isStill)))
                        => f.name = req[r].prevRender.filename)
                    => req[r].resp.filename = req[r].prevRender.filename

\* the request after a render was answered from the cache with that render's
\* filename while older artifacts of the composition were on disk
C10_CachedAfterRender_Witness ==
    \E r \in Req :
        /\ FollowsRender(r)
        /\ req[r].resp.cached
        /\ req[r].resp.filename = req[r].prevRender.filename
        /\ Cardinality(renders) >= KeepCount

\* C11: once the engine has succeeded the request is answered 200 with
\* cached false and its filename, whether or not readdir, a stat or an unlink
\* of cleanupOldFiles fails; and of the files selected for deletion only
\* those whose own unlink failed are still there afterwards.
C11_PruneNeverFails ==
    [][\A r \in Req :
          /\ (req[r].pc = "cleanup" /\ req'[r].pc # "cleanup")
                => /\ req'[r].pc = "unlink"
                   /\ req'[r].resp = NoResp
          /\ (req[r].pc = "unlink" /\ req'[r].pc # "unlink")
                => /\ req'[r].pc = "done"
                   /\ req'[r].resp.status = 200
                   /\ ~req'[r].resp.cached
                   /\ req'[r].resp.filename = req[r].filename
                   /\ Cardinality(req[r].toDelete \cap Names(renders')) <= faults' - faults]_vars

\* one unlink failed, the other selected file was deleted, and the request
\* was answered 200
C11_PruneNeverFails_Witness ==
    \E r \in RenderReqs :
        /\ req[r].pc = "done"
        /\ req[r].pruneFaulted
        /\ req[r].resp.status = 200
        /\ req[r].fsWrites = 2
        /\ Cardinality(renders) = KeepCount + 2

\* C12: when the engine fails the request is answered 500 with the engine's
\* error, cleanupOldFiles has not run, and every file that was in ./renders
\* is still there, the files other than the output as they were.
C12_EngineFailure ==
    [][\A r \in Req :
          (req[r].pc = "rendering" /\ req'[r].pc = "done")
             => /\ req'[r].resp = [status |-> 500, cached |-> FALSE,
                                   filename |-> NoFile, error |-> "render"]
                /\ req'[r].engineCalls = 1
                /\ req'[r].cleanups = 0
                /\ Names(renders) \subseteq Names(renders')
                /\ \A f \in renders : f.name # req[r].filename => f \in renders'
                /\ \A f \in renders' : f.name # req[r].filename => f \in renders]_vars

\* the engine failed after it had written to the output path: the file and
\* the ten older artifacts are all on disk
C12_EngineFailure_Witness ==
    \E r \in RenderReqs :
        /\ req[r].pc = "done"
        /\ req[r].resp.error = "render"
        /\ req[r].fsWrites = 1
        /\ Cardinality(Matching(renders, req[r].compositionId, req[r].isStill)) > KeepCount

\* C13: when selectComposition rejects the request is answered 500 with that
\* error; the engine is not called, no filename is generated, ./renders is
\* neither created nor written, and cleanupOldFiles does not run.
C13_SelectFailure ==
    [][\A r \in Req :
          (req[r].pc = "selecting" /\ req'[r].pc = "done" /\ req'[r].resp.error = "select")
             => /\ req'[r].resp = [status |-> 500, cached |-> FALSE,
                                   filename |-> NoFile, error |-> "select"]
                /\ req'[r].engineCalls = 0
                /\ req[r].filename = NoFile
                /\ req[r].timestamp = 0
                /\ req'[r].cleanups = 0
                /\ rendersExists' = rendersExists
                /\ renders' = renders
                /\ now' = now]_vars

\* selectComposition failed on a server that has no ./renders
C13_SelectFailure_Witness ==
    \E r \in RenderReqs :
        /\ req[r].pc = "done"
        /\ req[r].resp.error = "select"
        /\ req[r].selectCalls = 1
        /\ ~rendersExists

\* C14 as stated: an upload whose payload is missing, does not start with
\* data:image/ or does not match data:<mime>;base64,<data> is answered 400
\* (when no file system call failed before the payload was looked at), and
\* 500 answers only a failed file system call.
C14_Malformed400 ==
    \A i \in DOMAIN uploads :
        /\ (~uploads[i].fsFailed
              /\ (\/ uploads[i].payload = <<>>
                  \/ ~StartsWithDataImage(uploads[i].payload)
                  \/ MatchPosition(uploads[i].payload) = 0))
              => uploads[i].status = 400
        /\ uploads[i].status = 500 => uploads[i].fsFailed

\* C16 as stated: two stored payloads with the same extension whose base64
\* data decodes to the same bytes have the same filename.
C16_HashOfBytes ==
    \A i, j \in DOMAIN uploads :
        (/\ uploads[i].status = 200
         /\ uploads[j].status = 200
         /\ Extension(MimeType(uploads[i].payload)) = Extension(MimeType(uploads[j].payload))
         /\ BufferFromBase64(Base64String(uploads[i].payload))
               = BufferFromBase64(Base64String(uploads[j].payload)))
           => uploads[i].filename = uploads[j].filename

\* C15 as stated: a render request whose body the schema refuses is
\* answered 400.
C15_Validation400 ==
    \A r \in Req :
        (req[r].route = "renderInvalid" /\ req[r].pc = "done")
           => req[r].resp.status = 400

\* C17: whether a cache-enabled request that could list ./renders is
\* answered from the cache, and with which names, is settled by the
\* composition id, the kind and the files of ./renders: it is a hit exactly
\* when a file matching id and kind is there and the name returned is such
\* a file's, so two such requests that differ in inputProps only have the
\* same outcome.
C17_LookupIgnoresProps ==
    /\ \A r \in RenderReqs :
          (req[r].compositionCache /\ req[r].lookup # "error")
             => /\ req[r].lookup = (IF req[r].matchOnDisk THEN "hit" ELSE "miss")
                /\ req[r].resp.cached <=> req[r].matchOnDisk
                /\ req[r].resp.cached
                      => /\ StartsWith(req[r].resp.filename, req[r].compositionId)
                         /\ EndsWith(req[r].resp.filename, DotExtension(req[r].isStill))
    /\ \A q, r \in RenderReqs :
          (/\ req[q].compositionCache /\ req[r].compositionCache
           /\ req[q].lookup # "error" /\ req[r].lookup # "error"
           /\ req[q].compositionId = req[r].compositionId
           /\ req[q].isStill = req[r].isStill
           /\ req[q].matchOnDisk = req[r].matchOnDisk)
             => req[q].lookup = req[r].lookup

\* a request with other inputProps than the render before it was answered
\* with that render's artifact
C17_LookupIgnoresProps_Witness ==
    \E r \in RenderReqs :
        /\ req[r].resp.cached
        /\ req[r].prevRender.filename = req[r].resp.filename
        /\ req[r].prevRender.inputProps # req[r].inputProps
        /\ Names(renders) = {req[r].resp.filename}

\* C18 as stated: a listing endpoint whose directory is missing or whose
\* readdir or stat fails answers 200 with an empty list.
C18_ReadErrorsAbsent ==
    (listing.route \in {"renders", "compositions", "assets"} /\ listing.fault # "none")
       => /\ listing.status = 200
          /\ listing.files = <<>>
          /\ listing.publicFileTree = <<>>

\* the list getAssetsFromDir owes for directory dir of ./public and a
\* category: empty when ./public or the directory is missing, when its
\* readdir failed or when the stat of a listed file failed; otherwise one
\* item per entry whose lower-cased extension is on the category's list, with
\* the entry's name, path, size and time, in the order of the names
AssetsListed(items, dir, category) ==
    LET dirs == {e \in assets : e.name = <<dir, "">> /\ e.type = "directory"}
        allowed == IF category = "videos" THEN {"mp4", "webm", "mov", "avi"}
                   ELSE {"jpg", "jpeg", "png", "gif", "webp"}
        wanted == {e \in UNION {d.children : d \in dirs} :
                     toLowerCase(extname(e.name)) \in allowed}
        failed == /\ listing.failing = dir
                  /\ listing.fault = "readdir" \/ wanted # {}
    IN IF ~publicExists \/ dirs = {} \/ failed
       THEN items = <<>>
       ELSE /\ Len(items) = Cardinality(wanted)
            /\ \A e \in wanted :
                  \E i \in DOMAIN items :
                      /\ items[i].name = e.name
                      /\ items[i].path = <<<<dir, "">>, e.name>>
                      /\ items[i].size = e.size
                      /\ items[i].modified = e.modified
            /\ \A i, j \in DOMAIN items :
                  i < j => localeCompare(items[i].name, items[j].name) < 0

\* C19: GET /assets answers 200 whatever fails, and each category's list is
\* what getAssetsFromDir owes: flat, in alphabetical order of the names,
\* exactly the entries of the category's directory whose lower-cased
\* extension is allowed, or empty when the directory is missing or cannot be
\* read or a stat fails.
C19_AssetsFromDir ==
    listing.route = "assets"
       => /\ listing.status = 200
          /\ AssetsListed(listing.videos, "videos", "videos")
          /\ AssetsListed(listing.backdrops, "backdrops", "images")
          /\ AssetsListed(listing.avatars, "avatars", "images")

\* videos lists a.mp4 before B.MP4 while backdrops, whose directory is there
\* but could not be read, is empty and avatars lists nothing allowed
C19_AssetsFromDir_Witness ==
    /\ listing.route = "assets"
    /\ Len(listing.videos) = 2
    /\ listing.videos[1].name = <<"a", "mp4">>
    /\ listing.videos[2].name = <<"B", "MP4">>
    /\ listing.failing = "backdrops"
    /\ listing.fault = "readdir"
    /\ \E e \in assets : e.name = <<"backdrops", "">>
    /\ listing.backdrops = <<>>

\* the nodes are the entries, each once, directories before files and each
\* group in the order of the names, files with their size and time and
\* directories with the nodes of their entries
RECURSIVE TreeOf(_, _, _)
TreeOf(nodes, entries, relativePath) ==
    /\ Len(nodes) = Cardinality(entries)
    /\ \A e \in entries :
          \E i \in DOMAIN nodes :
              /\ nodes[i].name = e.name
              /\ nodes[i].type = e.type
              /\ nodes[i].path = relativePath \o <<e.name>>
              /\ IF e.type = "directory"
                 THEN TreeOf(nodes[i].children, e.children, relativePath \o <<e.name>>)
                 ELSE nodes[i].size = e.size /\ nodes[i].modified = e.modified
    /\ \A i, j \in DOMAIN nodes :
          i < j => \/ nodes[i].type = "directory" /\ nodes[j].type = "file"
                   \/ /\ nodes[i].type = nodes[j].type
                      /\ localeCompare(nodes[i].name, nodes[j].name) < 0

\* C20: the publicFileTree of a successful GET /compositions holds, at every
\* level, every entry of the directory exactly once, directories (with their
\* own children built the same way) before files (with size and modification
\* time), each group in alphabetical order of the names.
C20_TreeOrder ==
    (listing.route = "compositions" /\ listing.status = 200)
       => TreeOf(listing.publicFileTree, assets, <<>>)

\* a tree of three directories and two files, the first directory holding a
\* directory that holds files
C20_TreeOrder_Witness ==
    /\ listing.route = "compositions"
    /\ listing.status = 200
    /\ Len(listing.publicFileTree) = 5
    /\ listing.publicFileTree[1].name = <<"avatars", "">>
    /\ listing.publicFileTree[4].name = <<"a", "mp4">>
    /\ listing.publicFileTree[1].children[1].type = "directory"
    /\ Len(listing.publicFileTree[1].children[1].children) = 2

\* C24: within one render request the bundle build, selectComposition and the
\* rendering engine are each invoked at most once, whatever fails; a request
\* has no response while it runs and exactly one (200 or 500) once its handler
\* has ended, and a running handler always has a next step to take when its
\* pending call returns.
C24_NoRetry ==
    \A r \in RenderReqs :
       /\ req[r].buildCalls <= 1
       /\ req[r].selectCalls <= 1
       /\ req[r].engineCalls <= 1
       /\ req[r].pc # "done" => req[r].resp = NoResp /\ ENABLED Continue(r)
       /\ req[r].pc = "done" => req[r].resp.status \in {200, 500} /\ ~ENABLED Continue(r)

\* the engine was called once, it rejected, and the request was answered 500
C24_NoRetry_Witness ==
    \E r \in RenderReqs :
       /\ req[r].pc = "done"
       /\ req[r].resp = ErrorResp("render")
       /\ req[r].buildCalls = 1
       /\ req[r].selectCalls = 1
       /\ req[r].engineCalls = 1

\* the artifacts a render of compositionId with this kind can have written
IsArtifactOf(name, compositionId, isStill) ==
    \E t \in 0..(now + 1) : name = generateFilename(compositionId, isStill, t)

\* C25: cleanupOldFiles(C, kind) deletes only artifacts rendered for
\* composition C with that kind: every file that leaves ./renders was written
\* by a render of the pruning request's composition and kind; a file of a
\* composition whose id has C as a proper prefix stays.
C25_PruneOwnOnly ==
    [][\A f \in renders :
          f.name \notin Names(renders')
             => \E r \in RenderReqs :
                   /\ req[r].pc = "unlink"
                   /\ IsArtifactOf(f.name, req[r].compositionId, req[r].isStill)]_vars

\* C26: a cache hit for composition C and kind K returns an artifact a render
\* of C with K produced, never one of a composition whose id begins with C.
C26_HitOwnOnly ==
    \A r \in RenderReqs :
       (req[r].pc = "done" /\ req[r].resp.status = 200 /\ req[r].resp.cached)
          => IsArtifactOf(req[r].resp.filename, req[r].compositionId, req[r].isStill)

\* C27: with requests one at a time, no failing stat, unlink or listing in the
\* pruning, and modification times that grow with the order of the writes,
\* the filename of every cached=false response names a file that is in
\* ./renders when the response is sent, however many artifacts were there.
C27_OwnArtifactKept ==
    \A r \in RenderReqs :
       (/\ req[r].pc = "done"
        /\ req[r].resp.status = 200
        /\ ~req[r].resp.cached
        /\ ~req[r].pruneFaulted)
          => req[r].resp.filename \in Names(renders)

\* the render came onto a full set of artifacts, the pruning deleted, and the
\* new file is among the ten that are left
C27_OwnArtifactKept_Witness ==
    \E r \in RenderReqs :
       /\ req[r].pc = "done"
       /\ req[r].resp.status = 200
       /\ ~req[r].resp.cached
       /\ ~req[r].pruneFaulted
       /\ req[r].cleanups = 1
       /\ req[r].resp.filename \in Names(renders)
       /\ Cardinality({f \in renders : IsArtifactOf(f.name, req[r].compositionId, req[r].isStill)}) = KeepCount
       /\ \E t \in 1..MaxInitFiles :
             generateFilename(req[r].compositionId, req[r].isStill, t) \notin Names(renders)

\* C29: an upload answered 400 or 500 leaves the file system as it was: no
\* file of ./public is written or replaced, and ./public is not created.
C29_RejectedUploadNoEffect ==
    \A i \in DOMAIN uploads :
       uploads[i].status # 200 => ~uploads[i].changed /\ ~uploads[i].madeDir

\* C21: DELETE /renders/:filename removes exactly the named file.  Answered
\* 200, the file at the resolved path was there and is gone, and every other
\* file is as before; a path that names no file is answered 500, and with 500
\* nothing on disk has changed; a cache lookup that follows a successful
\* DELETE does not return the deleted file.
C21_DeleteExact ==
    [][/\ deletion'.count = deletion.count + 1 =>
            LET filePath == resolve(RendersDir, deletion'.filename)
            IN /\ deletion'.status \in {200, 500}
               /\ filePath \notin FsPaths => deletion'.status = 500
               /\ deletion'.status = 200 =>
                     /\ filePath \in FsPaths
                     /\ FsPaths' = FsPaths \ {filePath}
                     /\ renders' \subseteq renders
                     /\ publicFiles' \subseteq publicFiles
               /\ deletion'.status = 500 =>
                     UNCHANGED <<rendersExists, renders, publicExists, publicFiles, projectFiles>>
       /\ \A r \in Req :
             (req[r].pc = "idle" /\ req'[r].resp.cached /\ deletion.status = 200)
                => Append(RendersDir, req'[r].resp.filename) # deletion.filePath]_vars

\* one DELETE was answered 500, the other deleted an artifact, and a later
\* request with compositionCache true was served another file
C21_DeleteExact_Witness ==
    /\ deletion.count = 2
    /\ deletion.status = 200
    /\ deletion.filename = <<generateFilename(<<"A">>, FALSE, 1)>>
    /\ generateFilename(<<"A">>, FALSE, 1) \notin Names(renders)
    /\ Cardinality(renders) = 3
    /\ projectFiles = ProjectFiles
    /\ deletion.epoch < recycled
    /\ req[1].pc = "done"
    /\ req[1].resp.cached
    /\ ~req[1].isStill

\* C30: DELETE /renders/:filename only removes files inside ./renders,
\* whatever the filename parameter holds: a request answered 200 has unlinked
\* a path below the renders directory, and the files of the working
\* directory are never touched.
C30_DeleteInsideRenders ==
    /\ deletion.status = 200 => StartsWith(deletion.filePath, RendersDir)
    /\ projectFiles = ProjectFiles

\* C22: the null check of initializeBundle takes no account of builds in
\* flight: a request that finds bundleLocation null starts a build of its
\* own, also while another request's build is pending, and every build that
\* finishes assigns its location to bundleLocation and hands it to its own
\* request, so a later finish overwrites an earlier one.
C22_BuildRace ==
    [][\A r \in Req :
          /\ (req[r].pc = "initBundle" /\ req'[r].pc # "initBundle" /\ bundleLocation = NoBundle)
                => /\ req'[r].pc = "bundling"
                   /\ builds' = builds + 1
                   /\ req'[r].build = builds + 1
          /\ (req[r].pc = "bundling" /\ req'[r].pc = "selecting")
                => /\ bundleLocation' = req[r].build
                   /\ req'[r].bundlePath = req[r].build]_vars

\* two builds were in flight together, the second to finish overwrote the
\* location of the first, and the two requests render against different
\* bundle locations
C22_BuildRace_Witness ==
    \E q, r \in Req :
       /\ q # r
       /\ req[q].pc = "rendering"
       /\ req[r].pc = "rendering"
       /\ builds = 2
       /\ req[q].bundlePath # req[r].bundlePath
       /\ bundleLocation = req[r].bundlePath

\* C23: each of two concurrent uncached renders of one composition and kind
\* writes its artifact and runs cleanupOldFiles once; the unlink loop removes
\* every file its own scan put behind position 10, the fresh artifact of the
\* other request included, and each handler then answers success with its
\* filename whether or not that file is still on disk.
C23_PruneRace ==
    [][\A r \in Req :
          /\ (req[r].pc = "rendering" /\ req'[r].pc = "cleanup")
                => req[r].filename \in Names(renders')
          /\ (req[r].pc = "unlink" /\ req'[r].pc = "done")
                => /\ renders' = {f \in renders : f.name \notin req[r].toDelete}
                   /\ req'[r].resp = SuccessResp(req[r].filename, FALSE)
                   /\ req'[r].engineCalls = 1
                   /\ req'[r].cleanups = 1]_vars

\* with every modification time in write order: the pruning of one request
\* has deleted the artifact the other has written, and the other is about to
\* answer success with that filename
C23_PruneRace_Witness ==
    \E q, r \in Req :
       /\ q # r
       /\ \A f \in renders : f.mtime <= now
       /\ req[q].pc = "done"
       /\ req[q].resp.status = 200
       /\ req[q].cleanups = 1
       /\ req[r].pc = "unlink"
       /\ req[r].filename # req[q].resp.filename
       /\ req[r].filename \notin req[r].toDelete
       /\ req[r].filename \notin Names(renders)

\* C28: two render requests that have both reached the engine for the same
\* composition and kind have different output paths, also when their
\* filenames were generated at the same clock reading.
C28_DistinctOutputs ==
    \A q, r \in Req :
       (/\ q # r
        /\ req[q].pc = "rendering"
        /\ req[r].pc = "rendering"
        /\ req[q].compositionId = req[r].compositionId
        /\ req[q].isStill = req[r].isStill)
          => req[q].filename # req[r].filename

====
